---------------------------- MODULE Spec2Model ----------------------------
(***************************************************************************)
(* k8s-connection-monitor: the socket-table parser (package connection),   *)
(* the docker PID resolver (package moby) and the per-pod aggregation      *)
(* (Monitor.Collect).                                                      *)
(*                                                                         *)
(* A Go string is a sequence of one-character strings, so that Split,      *)
(* Fields, hex decoding and decimal formatting are computed, not assumed.  *)
(* A Go error is a record: Nil, or [present |-> TRUE, errors |-> msgs].    *)
(***************************************************************************)
EXTENDS Integers, Sequences, FiniteSets, TLC

VARIABLES dec, inet, gc, moby, col

vars == <<dec, inet, gc, moby, col>>

Idle == [pc |-> "idle"]

(***************************************************************************)
(* Errors                                                                  *)
(***************************************************************************)
Nil == [present |-> FALSE, errors |-> <<>>]

\* errors.Errorf(format, arg)
Errorf(format, arg) == [present |-> TRUE, errors |-> << <<format, arg>> >>]

\* errors.Wrapf(err, format, arg); errors.Wrap: nil when err is nil
Wrapf(err, format, arg) ==
    IF ~err.present THEN Nil
    ELSE [present |-> TRUE, errors |-> << <<format, arg>> >> \o err.errors]

(***************************************************************************)
(* Strings                                                                 *)
(***************************************************************************)
RECURSIVE JoinWith(_, _)
JoinWith(ss, sep) ==
    IF ss = <<>> THEN <<>>
    ELSE IF Len(ss) = 1 THEN ss[1]
    ELSE ss[1] \o sep \o JoinWith(Tail(ss), sep)

\* the k-th smallest element of a set of positions
Nth(P, k) == CHOOSE i \in P : Cardinality({j \in P : j <= i}) = k

\* strings.Split(s, sep) / bytes.Split for a one-character separator:
\* n separators give n+1 pieces, empty pieces kept.
Split(s, sep) ==
    LET P == {i \in 1..Len(s) : s[i] = sep}
        n == Cardinality(P)
    IN  [k \in 1..(n + 1) |->
            SubSeq(s, IF k = 1 THEN 1 ELSE Nth(P, k - 1) + 1,
                      IF k = n + 1 THEN Len(s) ELSE Nth(P, k) - 1)]

\* the ASCII characters unicode.IsSpace accepts
WhiteSpace == {" ", "\t", "\r", "\n", "\f"}

\* strings.Fields(s): the maximal runs of non-space characters.
Fields(s) ==
    LET text == {i \in 1..Len(s) : s[i] \notin WhiteSpace}
        starts == {i \in text : i - 1 \notin text}
        ends == {i \in text : i + 1 \notin text}
    IN  [k \in 1..Cardinality(starts) |-> SubSeq(s, Nth(starts, k), Nth(ends, k))]

DecDigits == <<"0", "1", "2", "3", "4", "5", "6", "7", "8", "9">>

LowerHex == DecDigits \o <<"a", "b", "c", "d", "e", "f">>

UpperHex == DecDigits \o <<"A", "B", "C", "D", "E", "F">>

IndexOf(c, digits) ==
    IF \E i \in 1..Len(digits) : digits[i] = c
    THEN (CHOOSE i \in 1..Len(digits) : digits[i] = c) - 1
    ELSE -1

\* encoding/hex fromHexChar and strconv's digit value: 0..15, or -1.
fromHexChar(c) ==
    IF IndexOf(c, LowerHex) >= 0 THEN IndexOf(c, LowerHex) ELSE IndexOf(c, UpperHex)

\* strconv.Itoa / the decimal formatting of a byte.
RECURSIVE UItoa(_)
UItoa(n) == IF n < 10 THEN <<DecDigits[n + 1]>>
            ELSE UItoa(n \div 10) \o <<DecDigits[(n % 10) + 1]>>

Itoa(n) == IF n < 0 THEN <<"-">> \o UItoa(0 - n) ELSE UItoa(n)

(***************************************************************************)
(* decodeAddress and the library calls it makes                            *)
(***************************************************************************)
\* strconv.underscoreOK on "0x" + s: an underscore must follow the base
\* prefix or a digit and must be followed by a digit.  prev is "0" after a
\* digit or the prefix, "_" after an underscore, "!" otherwise.
RECURSIVE underscoreOKFrom(_, _)
underscoreOKFrom(s, prev) ==
    IF s = <<>> THEN prev # "_"
    ELSE IF fromHexChar(Head(s)) >= 0 THEN underscoreOKFrom(Tail(s), "0")
    ELSE IF Head(s) = "_" THEN prev = "0" /\ underscoreOKFrom(Tail(s), "_")
    ELSE prev # "_" /\ underscoreOKFrom(Tail(s), "!")

RECURSIVE hexValue(_, _)
hexValue(s, acc) ==
    IF s = <<>> THEN acc
    ELSE IF Head(s) = "_" THEN hexValue(Tail(s), acc)
    ELSE hexValue(Tail(s), 16 * acc + fromHexChar(Head(s)))

\* strconv.ParseInt("0x" + s, 0, 64).  With an empty s the text is "0x",
\* which base 0 reads as octal "0" followed by the bad digit "x".  A sign
\* cannot follow the prefix.  The 64-bit range is not reached by the ports
\* of the model (at most 5 hex digits).
ParseHexInt(s) ==
    IF s = <<>> THEN [ok |-> FALSE, n |-> 0]
    ELSE IF \E i \in 1..Len(s) : s[i] # "_" /\ fromHexChar(s[i]) < 0
         THEN [ok |-> FALSE, n |-> 0]
    ELSE IF ~underscoreOKFrom(s, "0") THEN [ok |-> FALSE, n |-> 0]
    ELSE [ok |-> TRUE, n |-> hexValue(s, 0)]

RECURSIVE hexBytes(_)
hexBytes(s) ==
    IF s = <<>> THEN <<>>
    ELSE <<16 * fromHexChar(s[1]) + fromHexChar(s[2])>> \o hexBytes(Tail(Tail(s)))

\* hex.DecodeString: an error for a character that is no hex digit and for
\* an odd length.
HexDecodeString(s) ==
    IF (\E i \in 1..Len(s) : fromHexChar(s[i]) < 0) \/ Len(s) % 2 = 1
    THEN [ok |-> FALSE, bytes |-> <<>>]
    ELSE [ok |-> TRUE, bytes |-> hexBytes(s)]

reverse(s) == [i \in 1..Len(s) |-> s[Len(s) + 1 - i]]

RECURSIVE hexString(_)
hexString(b) ==
    IF b = <<>> THEN <<>>
    ELSE <<LowerHex[(Head(b) \div 16) + 1], LowerHex[(Head(b) % 16) + 1]>>
         \o hexString(Tail(b))

\* net.IP.String: "<nil>" for no bytes, the dotted quad for 4 bytes, and
\* "?" followed by the hex digits for any other length (16 bytes, the IPv6
\* form, is beyond the addresses of the model).
IPString(ip) ==
    IF Len(ip) = 0 THEN <<"<", "n", "i", "l", ">">>
    ELSE IF Len(ip) = 4
         THEN JoinWith([i \in 1..4 |-> UItoa(ip[i])], <<".">>)
    ELSE <<"?">> \o hexString(ip)

decodeAddressLooseSplit(family, src) ==
    LET t == Split(src, ":")
        port == ParseHexInt(t[2])
        decoded == HexDecodeString(t[1])
        ip == IF family = "inet" THEN reverse(decoded.bytes) ELSE <<>>
    IN  IF Len(t) < 2 THEN [s |-> <<>>, err |-> Errorf("does not contain port %q", src)]
        ELSE IF ~port.ok THEN [s |-> <<>>, err |-> Errorf("invalid port %q", src)]
        ELSE IF ~decoded.ok THEN [s |-> <<>>, err |-> Wrapf(Errorf("encoding/hex", t[1]), "decode error %q", t[1])]
        ELSE [s |-> IPString(ip) \o <<":">> \o Itoa(port.n), err |-> Nil]

decodeAddressNoReverse(family, src) ==
    LET t == Split(src, ":")
        port == ParseHexInt(t[2])
        decoded == HexDecodeString(t[1])
    IN  IF Len(t) # 2 THEN [s |-> <<>>, err |-> Errorf("does not contain port %q", src)]
        ELSE IF ~port.ok THEN [s |-> <<>>, err |-> Errorf("invalid port %q", src)]
        ELSE IF ~decoded.ok THEN [s |-> <<>>, err |-> Wrapf(Errorf("encoding/hex", t[1]), "decode error %q", t[1])]
        ELSE [s |-> IPString(decoded.bytes) \o <<":">> \o Itoa(port.n), err |-> Nil]

decodeAddress(family, src) ==
    LET t == Split(src, ":")
        port == ParseHexInt(t[2])
        decoded == HexDecodeString(t[1])
        ip == IF family = "inet" THEN reverse(decoded.bytes) ELSE <<>>
    IN  IF Len(t) # 2 THEN [s |-> <<>>, err |-> Errorf("does not contain port %q", src)]
        ELSE IF ~port.ok THEN [s |-> <<>>, err |-> Errorf("invalid port %q", src)]
        ELSE IF ~decoded.ok THEN [s |-> <<>>, err |-> Wrapf(Errorf("encoding/hex", t[1]), "decode error %q", t[1])]
        ELSE [s |-> IPString(ip) \o <<":">> \o Itoa(port.n), err |-> Nil]

(***************************************************************************)
(* decodeAddress applied to bounded inputs                                 *)
(***************************************************************************)
MaxAddrBytes == 4

ByteTokens == {<<"0", "0">>, <<"0", "1">>, <<"7", "F">>}

RECURSIVE AddrsOfBytes(_)
AddrsOfBytes(n) ==
    IF n = 0 THEN {<<>>}
    ELSE {b \o a : b \in ByteTokens, a \in AddrsOfBytes(n - 1)}

HexAddrs == UNION {AddrsOfBytes(n) : n \in 0..MaxAddrBytes}

\* a lower-case address, an odd number of digits, a character that is no
\* hex digit
OtherAddrs == { <<"c", "0", "a", "8", "0", "1", "0", "a">>,
                <<"0", "1", "0", "0", "0", "0", "7">>,
                <<"0", "1", "0", "0", "0", "0", "7", "G">> }

Ports == { <<"1", "5", "3", "8">>, <<"1", "F", "9", "0">>, <<"0", "0", "0", "0">>,
           <<"5", "0">>, <<"1", "f", "9", "0">>, <<"F", "F", "F", "F">>,
           <<>>, <<"1", "_", "F">>, <<"G", "0">>, <<"-", "1">> }

DecodeInputs ==
    LET addrs == HexAddrs \cup OtherAddrs
    IN  {a \o <<":">> \o p : a \in addrs, p \in Ports}
        \cup addrs
        \cup {a \o <<":">> \o p \o <<":">> \o p : a \in addrs, p \in Ports}

NoRet == [s |-> <<>>, err |-> Nil]

InitDecode ==
    /\ dec \in [pc : {"call"}, family : {"inet", "inet6"}, src : DecodeInputs,
                ret : {NoRet}]
    /\ inet = Idle /\ gc = Idle /\ moby = Idle /\ col = Idle

DecodeAddress ==
    /\ dec.pc = "call"
    /\ dec' = [dec EXCEPT !.pc = "done", !.ret = decodeAddress(dec.family, dec.src)]
    /\ UNCHANGED <<inet, gc, moby, col>>

NextDecode == DecodeAddress

SpecDecode == InitDecode /\ [][NextDecode]_vars

(***************************************************************************)
(* processINET                                                             *)
(***************************************************************************)
connectionKindTypes ==
    << [family |-> "inet", sockType |-> "tcp", filename |-> <<"t", "c", "p">>],
       [family |-> "inet", sockType |-> "udp", filename |-> <<"u", "d", "p">>] >>

\* the map lookup _TCPStatuses[code]: the zero value "" for a missing key
_TCPStatuses(code) ==
    CASE code = <<"0", "1">> -> "ESTABLISHED"
      [] code = <<"0", "2">> -> "SYN_SENT"
      [] code = <<"0", "3">> -> "SYN_RECV"
      [] code = <<"0", "4">> -> "FIN_WAIT1"
      [] code = <<"0", "5">> -> "FIN_WAIT2"
      [] code = <<"0", "6">> -> "TIME_WAIT"
      [] code = <<"0", "7">> -> "CLOSE"
      [] code = <<"0", "8">> -> "CLOSE_WAIT"
      [] code = <<"0", "9">> -> "LAST_ACK"
      [] code = <<"0", "A">> -> "LISTEN"
      [] code = <<"0", "B">> -> "CLOSING"
      [] OTHER -> ""

connectionStatusNoDefault(kind, code) ==
    IF kind.sockType = "tcp" THEN _TCPStatuses(code) ELSE ""

\* lines 81-89: the status of a row of the given kind
connectionStatus(kind, code) ==
    LET status == IF kind.sockType = "tcp" THEN _TCPStatuses(code) ELSE ""
    IN  IF status = "" THEN "NONE" ELSE status

\* the body of the loop over the lines: no Connection or one.  decodeAddress
\* is declared with (family, src) and called with the field alone; the
\* family of the kind is the one in scope.  c.Type is set from the kind's
\* socket type.
processLine(line, kind) ==
    LET l == Fields(line)
        localAddress == decodeAddress(kind.family, l[2])
        remoteAddess == decodeAddress(kind.family, l[3])
    IN  IF Len(l) < 10 THEN <<>>
        ELSE IF localAddress.err.present THEN <<>>
        ELSE IF remoteAddess.err.present THEN <<>>
        ELSE << [Family |-> kind.family,
                 Type |-> kind.sockType,
                 LocalAddress |-> localAddress.s,
                 RemoteAddess |-> remoteAddess.s,
                 Status |-> connectionStatus(kind, l[4])] >>

RECURSIVE processLines(_, _)
processLines(lines, kind) ==
    IF lines = <<>> THEN <<>>
    ELSE processLine(Head(lines), kind) \o processLines(Tail(lines), kind)

\* ioutil.ReadFile on a file system that maps the readable paths to their
\* contents
ReadFile(fs, filename) ==
    IF filename \in DOMAIN fs THEN [contents |-> fs[filename], err |-> Nil]
    ELSE [contents |-> <<>>, err |-> Errorf("open %s", filename)]

processINETFailOnBadRow(fs, filename, kind) ==
    LET file == ReadFile(fs, filename)
        lines == Tail(Split(file.contents, "\n"))
    IN  IF file.err.present
        THEN [out |-> <<>>, err |-> Wrapf(file.err, "failed to read file %q", filename)]
        ELSE IF \E i \in 1..Len(lines) : processLine(lines[i], kind) = <<>>
        THEN [out |-> <<>>, err |-> Errorf("bad row in %q", filename)]
        ELSE [out |-> processLines(lines, kind), err |-> Nil]

\* the first line is skipped, every other line goes through the loop body
processINET(fs, filename, kind) ==
    LET file == ReadFile(fs, filename)
    IN  IF file.err.present
        THEN [out |-> <<>>, err |-> Wrapf(file.err, "failed to read file %q", filename)]
        ELSE [out |-> processLines(Tail(Split(file.contents, "\n")), kind), err |-> Nil]

(***************************************************************************)
(* Socket tables for processINET                                           *)
(***************************************************************************)
MaxRows == 2

HeaderLine ==
    <<" ", " ", "s", "l", " ", " ", "l", "o", "c", "a", "l", "_", "a", "d",
      "d", "r", "e", "s", "s", " ", "r", "e", "m", "_", "a", "d", "d", "r",
      "e", "s", "s", " ", " ", " ", "s", "t", " ", "t", "x", "_", "q", "u",
      "e", "u", "e", " ", "r", "x", "_", "q", "u", "e", "u", "e", " ", "t",
      "r", " ", "t", "m", "-", ">", "w", "h", "e", "n", " ", "r", "e", "t",
      "r", "n", "s", "m", "t", " ", " ", " ", "u", "i", "d", " ", " ", "t",
      "i", "m", "e", "o", "u", "t", " ", "i", "n", "o", "d", "e">>

Raw5432 == <<"0", "1", "0", "0", "0", "0", "7", "F", ":", "1", "5", "3", "8">>

Raw8080 == <<"0", "1", "0", "0", "0", "0", "7", "F", ":", "1", "F", "9", "0">>

RawZero == <<"0", "0", "0", "0", "0", "0", "0", "0", ":", "0", "0", "0", "0">>

RawNoPort == <<"0", "1", "0", "0", "0", "0", "7", "F">>

RawNotHex == <<"0", "1", "0", "0", "0", "0", "7", "G", ":", "0", "0", "0", "0">>

RawTwoBytes == <<"0", "1", "0", "0", ":", "0", "0", "5", "0">>

StatusCodes ==
    { <<"0", "1">>, <<"0", "2">>, <<"0", "3">>, <<"0", "4">>, <<"0", "5">>,
      <<"0", "6">>, <<"0", "7">>, <<"0", "8">>, <<"0", "9">>, <<"0", "A">>,
      <<"0", "B">>, <<"F", "F">>, <<"0", "a">> }

\* the rows a table is made of: a listening socket with any state code, and
\* one row of each other shape with state 01
Rows ==
    {[shape |-> "listen", code |-> c] : c \in StatusCodes}
    \cup {[shape |-> sh, code |-> <<"0", "1">>] :
            sh \in {"estab", "tabs", "short", "badlocal", "badremote",
                    "twobytes", "blank"}}

RowFields(row) ==
    LET sl == <<"0", ":">>
        z == <<"0">>
        local == CASE row.shape = "listen" -> Raw8080
                   [] row.shape = "badlocal" -> RawNoPort
                   [] row.shape = "twobytes" -> RawTwoBytes
                   [] OTHER -> Raw5432
        remote == CASE row.shape = "listen" -> RawZero
                    [] row.shape = "badremote" -> RawNotHex
                    [] OTHER -> Raw8080
    IN  IF row.shape = "blank" THEN <<>>
        ELSE IF row.shape = "short"
             THEN <<sl, local, remote, row.code, z, z, z, z, z>>
        ELSE <<sl, local, remote, row.code, z, z, z, z, z, z>>

RowLine(row) ==
    IF row.shape = "tabs" THEN <<"\t">> \o JoinWith(RowFields(row), <<"\t", " ">>)
    ELSE IF row.shape = "blank" THEN <<>>
    ELSE <<" ", " ">> \o JoinWith(RowFields(row), <<" ">>)

\* the sequences of at most n rows
RECURSIVE RowSeqs(_)
RowSeqs(n) ==
    IF n = 0 THEN {<<>>}
    ELSE {<<>>} \cup {<<r>> \o rs : r \in Rows, rs \in RowSeqs(n - 1)}

\* the text of a table: its first line and its rows, one per line (a blank
\* last row is a final newline)
TableText(first, rows) ==
    JoinWith(<<first>> \o [i \in 1..Len(rows) |-> RowLine(rows[i])], <<"\n">>)

ListenRow == [shape |-> "listen", code |-> <<"0", "A">>]

FirstLines == {HeaderLine, RowLine(ListenRow)}

NoINETRet == [out |-> <<>>, err |-> Nil]

TablePath == <<"/", "p", "r", "o", "c", "/", "7", "/", "n", "e", "t">>

\* a readable table, an empty file, or a file that cannot be read
InitINET ==
    /\ \E k \in 1..Len(connectionKindTypes) :
          \/ \E first \in FirstLines, rows \in RowSeqs(MaxRows) :
                inet = [pc |-> "call", kind |-> connectionKindTypes[k],
                        first |-> first, rows |-> rows,
                        fs |-> [f \in {TablePath} |-> TableText(first, rows)],
                        filename |-> TablePath, ret |-> NoINETRet]
          \/ \E fs \in {<<>>, [f \in {TablePath} |-> <<>>]} :
                inet = [pc |-> "call", kind |-> connectionKindTypes[k],
                        first |-> <<>>, rows |-> <<>>,
                        fs |-> fs, filename |-> TablePath, ret |-> NoINETRet]
    /\ dec = Idle /\ gc = Idle /\ moby = Idle /\ col = Idle

ProcessINET ==
    /\ inet.pc = "call"
    /\ inet' = [inet EXCEPT !.pc = "done",
                            !.ret = processINET(inet.fs, inet.filename, inet.kind)]
    /\ UNCHANGED <<dec, gc, moby, col>>

NextINET == ProcessINET

SpecINET == InitINET /\ [][NextINET]_vars

(***************************************************************************)
(* GetConnections                                                          *)
(***************************************************************************)
ProcRoot == <<"/", "p", "r", "o", "c">>

\* filepath.Join(root, strconv.Itoa(pid), filename) for clean elements
filepathJoin(root, pid, filename) ==
    JoinWith(<<root, Itoa(pid), filename>>, <<"/">>)

\* lines 24-26
defaultRoot(root) == IF root = <<>> THEN ProcRoot ELSE root

\* multierror: Append adds the error to the list; NilOrError is nil for an
\* empty list
multierrorAppend(result, err) == [errors |-> Append(result.errors, err)]

NilOrError(result) ==
    IF Len(result.errors) = 0 THEN Nil
    ELSE [present |-> TRUE, errors |-> result.errors]

gcFilename == filepathJoin(defaultRoot(gc.root), gc.pid, connectionKindTypes[gc.k].filename)

gcConnections == processINET(gc.fs, gcFilename, connectionKindTypes[gc.k])

\* a failed kind ends the loop at once
GetConnectionsKindFailedBreak ==
    /\ gc.pc = "loop" /\ gc.k <= Len(connectionKindTypes)
    /\ gcConnections.err.present
    /\ gc' = [gc EXCEPT !.result = multierrorAppend(gc.result, gcConnections.err),
                        !.reads = Append(gc.reads, gcFilename),
                        !.k = Len(connectionKindTypes) + 1]
    /\ UNCHANGED <<dec, inet, moby, col>>

\* lines 32-37: the table of kind k cannot be read
GetConnectionsKindFailed ==
    /\ gc.pc = "loop" /\ gc.k <= Len(connectionKindTypes)
    /\ gcConnections.err.present
    /\ gc' = [gc EXCEPT !.result = multierrorAppend(gc.result, gcConnections.err),
                        !.reads = Append(gc.reads, gcFilename),
                        !.k = gc.k + 1]
    /\ UNCHANGED <<dec, inet, moby, col>>

\* lines 32-41: the table of kind k is parsed
GetConnectionsKindParsed ==
    /\ gc.pc = "loop" /\ gc.k <= Len(connectionKindTypes)
    /\ ~gcConnections.err.present
    /\ gc' = [gc EXCEPT !.out = gc.out \o gcConnections.out,
                        !.reads = Append(gc.reads, gcFilename),
                        !.k = gc.k + 1]
    /\ UNCHANGED <<dec, inet, moby, col>>

\* line 45
GetConnectionsReturn ==
    /\ gc.pc = "loop" /\ gc.k > Len(connectionKindTypes)
    /\ gc' = [gc EXCEPT !.pc = "done",
                        !.ret = [out |-> gc.out, err |-> NilOrError(gc.result)]]
    /\ UNCHANGED <<dec, inet, moby, col>>

\* the tables of one kind in the namespace of a process: none (the file
\* cannot be read) or a first line and rows
GcTables ==
    {[readable |-> FALSE, first |-> <<>>, rows |-> <<>>]}
    \cup {[readable |-> TRUE, first |-> HeaderLine, rows |-> rows] :
            rows \in { <<>>,
                       <<ListenRow>>,
                       <<[shape |-> "estab", code |-> <<"0", "1">>]>>,
                       <<[shape |-> "estab", code |-> <<"0", "8">>], ListenRow>>,
                       <<[shape |-> "badlocal", code |-> <<"0", "1">>]>> }}

GcRoots == {<<>>, ProcRoot, <<"/", "h", "o", "s", "t">>}

GcPids == {-1, 7, 4242}

\* where the tables of a process are under the root a caller names
GcPath(root, pid, name) ==
    (IF root = <<>> THEN <<"/", "p", "r", "o", "c">> ELSE root)
    \o <<"/">> \o Itoa(pid) \o <<"/">> \o name

GcFS(root, pid, tables) ==
    LET names == <<<<"t", "c", "p">>, <<"u", "d", "p">>>>
        there == {i \in 1..2 : tables[i].readable}
    IN  [f \in {GcPath(root, pid, names[i]) : i \in there} |->
            LET i == CHOOSE i \in there : GcPath(root, pid, names[i]) = f
            IN  TableText(tables[i].first, tables[i].rows)]

InitGetConnections ==
    /\ \E root \in GcRoots, pid \in GcPids, tcp \in GcTables, udp \in GcTables :
          gc = [pc |-> "loop", root |-> root, pid |-> pid,
                tables |-> <<tcp, udp>>,
                fs |-> GcFS(root, pid, <<tcp, udp>>),
                k |-> 1, out |-> <<>>, result |-> [errors |-> <<>>],
                reads |-> <<>>, ret |-> NoINETRet]
    /\ dec = Idle /\ inet = Idle /\ moby = Idle /\ col = Idle

NextGetConnections ==
    \/ GetConnectionsKindFailed
    \/ GetConnectionsKindParsed
    \/ GetConnectionsReturn

SpecGetConnections == InitGetConnections /\ [][NextGetConnections]_vars

(***************************************************************************)
(* moby: Client.GetPids                                                    *)
(***************************************************************************)
mobyPrefix == <<"d", "o", "c", "k", "e", "r", ":", "/", "/">>

HasPrefix(s, prefix) ==
    Len(s) >= Len(prefix) /\ SubSeq(s, 1, Len(prefix)) = prefix

TrimPrefix(s, prefix) ==
    IF HasPrefix(s, prefix) THEN SubSeq(s, Len(prefix) + 1, Len(s)) ELSE s

\* ContainerInspect: an error for a container the daemon does not know or
\* cannot inspect, else the container's info
ContainerInspect(daemon, id) ==
    IF id \in DOMAIN daemon /\ ~daemon[id].fails
    THEN [info |-> daemon[id], err |-> Nil]
    ELSE [info |-> [fails |-> TRUE, hasState |-> FALSE, Pid |-> 0],
          err |-> Errorf("No such container: %s", id)]

\* lines 31-55.  errors.Wrap of the nil err of a successful inspection is
\* nil.
GetPids(daemon, id) ==
    IF ~HasPrefix(id, mobyPrefix)
    THEN [pids |-> <<>>, err |-> Errorf("%q is not a moby containerID", id)]
    ELSE LET r == ContainerInspect(daemon, TrimPrefix(id, mobyPrefix))
         IN  IF r.err.present
             THEN [pids |-> <<>>, err |-> Wrapf(r.err, "ContainerInspect failed", <<>>)]
             ELSE IF ~r.info.hasState
             THEN [pids |-> <<>>, err |-> Wrapf(r.err, "container has no state", <<>>)]
             ELSE IF r.info.Pid >= 0
             THEN [pids |-> <<>>, err |-> Nil]
             ELSE [pids |-> <<r.info.Pid>>, err |-> Nil]

ContainerNames == {<<"a", "b", "c">>, <<"d", "e", "f">>}

InspectResults ==
    {[fails |-> TRUE, hasState |-> FALSE, Pid |-> 0],
     [fails |-> FALSE, hasState |-> FALSE, Pid |-> 0]}
    \cup {[fails |-> FALSE, hasState |-> TRUE, Pid |-> p] : p \in {-1, 0, 1, 4242}}

ContainerIDs ==
    {mobyPrefix \o n : n \in ContainerNames \cup {<<>>, <<"z">>}}
    \cup ContainerNames
    \cup {<<"c", "r", "i", "-", "o", ":", "/", "/">> \o n : n \in ContainerNames}

InitMoby ==
    /\ \E daemon \in [ContainerNames -> InspectResults], id \in ContainerIDs :
          moby = [pc |-> "call", daemon |-> daemon, id |-> id,
                  ret |-> [pids |-> <<>>, err |-> Nil]]
    /\ dec = Idle /\ inet = Idle /\ gc = Idle /\ col = Idle

MobyGetPids ==
    /\ moby.pc = "call"
    /\ moby' = [moby EXCEPT !.pc = "done", !.ret = GetPids(moby.daemon, moby.id)]
    /\ UNCHANGED <<dec, inet, gc, col>>

NextMoby == MobyGetPids

SpecMoby == InitMoby /\ [][NextMoby]_vars

(***************************************************************************)
(* Monitor.Collect                                                         *)
(***************************************************************************)
\* a Go map write m[k] = v
MapPut(m, k, v) == (k :> v) @@ m

EmptyMap == <<>>

\* the orders a range over a map's values can take
Orders(S) ==
    {q \in [1..Cardinality(S) -> S] : \A i, j \in DOMAIN q : i # j => q[i] # q[j]}

isContainerRunning(c) == c.Running

\* lines 196-207: container name -> container ID, running containers with
\* an ID only
runningContainerIDs(status) ==
    LET keep == {i \in 1..Len(status) :
                    isContainerRunning(status[i]) /\ status[i].ContainerID # ""}
    IN  [name \in {status[i].Name : i \in keep} |->
            status[CHOOSE i \in keep :
                      /\ status[i].Name = name
                      /\ \A j \in keep : status[j].Name = name => j <= i].ContainerID]

isEligiblePhaseRunningOnly(phase) == phase = "Running"

\* lines 214-217
isEligiblePhase(phase) == phase \in {"Running", "Pending"}

\* lines 209-221
runningPods(in) == SelectSeq(in, LAMBDA p : isEligiblePhase(p.Phase))

\* line 171: the fields joined with "|".  No field of a Connection that
\* GetConnections builds contains "|", so the joined text determines the
\* four fields.
connectionKey(i) == <<i.Family, "|", i.Type, "|", i.LocalAddress, "|", i.RemoteAddess>>

insertConnectionsWithStatus(connections, c) ==
    LET keyOf(i) == <<connectionKey(i), i.Status>>
        keys == {keyOf(c[n]) : n \in 1..Len(c)}
    IN  [k \in keys \cup DOMAIN connections |->
            IF k \in keys THEN c[CHOOSE n \in 1..Len(c) : keyOf(c[n]) = k]
            ELSE connections[k]]

\* lines 169-174: connections[key] = i for every i of c, in order
insertConnections(connections, c) ==
    LET keys == {connectionKey(c[n]) : n \in 1..Len(c)}
        last(k) == c[CHOOSE n \in 1..Len(c) :
                        /\ connectionKey(c[n]) = k
                        /\ \A m \in 1..Len(c) : connectionKey(c[m]) = k => m <= n]
    IN  [k \in keys \cup DOMAIN connections |->
            IF k \in keys THEN last(k) ELSE connections[k]]

Pod(p) == [Name |-> p.Name, Namespace |-> p.Namespace]

NoPod == [Name |-> "", Namespace |-> ""]

ColVars0 ==
    [pc |-> "list", pods |-> <<>>, listed |-> <<>>, out |-> EmptyMap,
     ids |-> EmptyMap, pids |-> {}, todo |-> {}, connections |-> EmptyMap,
     calls |-> <<>>, warned |-> {}, warnedIDs |-> {}, stored |-> NoPod, hadPids |-> {},
     ret |-> [out |-> EmptyMap, isNil |-> TRUE, err |-> Nil]]

(***************************************************************************)
(* What the collaborators of Collect can answer                            *)
(***************************************************************************)
MaxPods == 2

\* the pods of a listing have distinct (name, namespace) pairs
PodIdents ==
    << [Name |-> "web", Namespace |-> "default"],
       [Name |-> "web", Namespace |-> "kube-system"],
       [Name |-> "db", Namespace |-> "default"],
       [Name |-> "db", Namespace |-> "kube-system"] >>

Phases == {"Running", "Pending", "Succeeded", "Failed"}

ContainerStatusLists ==
    { <<>>,
      << [Name |-> "c1", Running |-> TRUE, ContainerID |-> "docker://a"],
         [Name |-> "c2", Running |-> FALSE, ContainerID |-> "docker://b"] >>,
      << [Name |-> "c1", Running |-> TRUE, ContainerID |-> "docker://a"],
         [Name |-> "c2", Running |-> TRUE, ContainerID |-> "docker://b"],
         [Name |-> "c3", Running |-> TRUE, ContainerID |-> ""] >> }

PodLists ==
    UNION { { [i \in 1..n |-> [Name |-> PodIdents[i].Name,
                               Namespace |-> PodIdents[i].Namespace,
                               Phase |-> f[i][1],
                               Status |-> f[i][2]]] :
              f \in [1..n -> Phases \X ContainerStatusLists] } :
            n \in 0..MaxPods }

PidLists == {<<>>, <<10>>, <<11>>, <<10, 11>>}

ConnEstablished ==
    [Family |-> "inet", Type |-> "tcp", LocalAddress |-> "10.0.0.1:80",
     RemoteAddess |-> "10.0.0.2:40000", Status |-> "ESTABLISHED"]

ConnCloseWait == [ConnEstablished EXCEPT !.Status = "CLOSE_WAIT"]

ConnUDP ==
    [Family |-> "inet", Type |-> "udp", LocalAddress |-> "10.0.0.1:80",
     RemoteAddess |-> "10.0.0.2:40000", Status |-> "NONE"]

ConnLists ==
    { <<>>, <<ConnEstablished>>, <<ConnCloseWait, ConnUDP>>,
      <<ConnEstablished, ConnCloseWait>> }

\* lines 121-128: the lister fails and Collect returns (nil, error), or it
\* lists the pods of the node and the eligible ones are kept
CollectListPodsFailed ==
    /\ col.pc = "list"
    /\ col' = [col EXCEPT !.pc = "done",
                          !.ret = [out |-> EmptyMap, isNil |-> TRUE,
                                   err |-> Wrapf(Errorf("list pods", <<>>),
                                                 "failed to get pods for node %q", <<>>)]]
    /\ UNCHANGED <<dec, inet, gc, moby>>

CollectListPods ==
    /\ col.pc = "list"
    /\ \E pods \in PodLists :
          col' = [col EXCEPT !.pc = "pods",
                            !.listed = [i \in 1..Len(pods) |->
                                           [Name |-> pods[i].Name,
                                            Namespace |-> pods[i].Namespace,
                                            Phase |-> pods[i].Phase]],
                            !.pods = runningPods(pods)]
    /\ UNCHANGED <<dec, inet, gc, moby>>

\* lines 130-134: the next pod of the loop, its running container IDs
CollectNextPod ==
    /\ col.pc = "pods" /\ col.pods # <<>>
    /\ col' = [col EXCEPT !.pc = "ids",
                          !.ids = runningContainerIDs(Head(col.pods).Status),
                          !.pids = {}, !.todo = {}, !.connections = EmptyMap,
                          !.calls = <<>>, !.warned = {}, !.warnedIDs = {},
                          !.stored = NoPod]
    /\ UNCHANGED <<dec, inet, gc, moby>>

\* lines 137-148: GetPids fails for a container, in any order of the map:
\* a warning, and the next container
CollectGetPidsFailed ==
    /\ col.pc = "ids"
    /\ \E name \in DOMAIN col.ids :
          col' = [col EXCEPT !.ids = [n \in DOMAIN col.ids \ {name} |-> col.ids[n]],
                            !.warnedIDs = col.warnedIDs \cup {col.ids[name]}]
    /\ UNCHANGED <<dec, inet, gc, moby>>

\* lines 137-152: GetPids gives the container's pids
CollectGetPids ==
    /\ col.pc = "ids"
    /\ \E name \in DOMAIN col.ids, containerPids \in PidLists :
          col' = [col EXCEPT !.ids = [n \in DOMAIN col.ids \ {name} |-> col.ids[n]],
                            !.pids = col.pids \cup
                                {containerPids[i] : i \in 1..Len(containerPids)}]
    /\ UNCHANGED <<dec, inet, gc, moby>>

\* lines 155-156: every container is done; the range over pids begins
CollectRangePids ==
    /\ col.pc = "ids" /\ DOMAIN col.ids = {}
    /\ col' = [col EXCEPT !.pc = "conns", !.todo = col.pids,
                          !.connections = EmptyMap]
    /\ UNCHANGED <<dec, inet, gc, moby>>

\* an error from the getter ends the work on this pid
CollectGetConnectionsSkipOnError ==
    /\ col.pc = "conns"
    /\ \E pid \in col.todo, c \in ConnLists, failed \in BOOLEAN :
          col' = [col EXCEPT
                    !.todo = col.todo \ {pid},
                    !.calls = Append(col.calls, [pid |-> pid, c |-> c, failed |-> failed]),
                    !.warned = IF failed THEN col.warned \cup {pid} ELSE col.warned,
                    !.connections = IF failed THEN col.connections
                                    ELSE insertConnections(col.connections, c)]
    /\ UNCHANGED <<dec, inet, gc, moby>>

\* the first error from the getter ends the range over the pids
CollectGetConnectionsStopOnError ==
    /\ col.pc = "conns"
    /\ \E pid \in col.todo, c \in ConnLists, failed \in BOOLEAN :
          col' = [col EXCEPT
                    !.todo = IF failed THEN {} ELSE col.todo \ {pid},
                    !.calls = Append(col.calls, [pid |-> pid, c |-> c, failed |-> failed]),
                    !.warned = IF failed THEN col.warned \cup {pid} ELSE col.warned,
                    !.connections = insertConnections(col.connections, c)]
    /\ UNCHANGED <<dec, inet, gc, moby>>

\* lines 156-175: one pid of the range, in any order of the map.  The getter
\* gives connections, an error, or both; an error is a warning and the
\* connections are inserted either way.
CollectGetConnections ==
    /\ col.pc = "conns"
    /\ \E pid \in col.todo, c \in ConnLists, failed \in BOOLEAN :
          col' = [col EXCEPT
                    !.todo = col.todo \ {pid},
                    !.calls = Append(col.calls, [pid |-> pid, c |-> c, failed |-> failed]),
                    !.warned = IF failed THEN col.warned \cup {pid} ELSE col.warned,
                    !.connections = insertConnections(col.connections, c)]
    /\ UNCHANGED <<dec, inet, gc, moby>>

\* lines 177-186: the values of the connections map, in any order of the
\* map, stored under the pod's name and namespace
CollectStorePod ==
    /\ col.pc = "conns" /\ col.todo = {}
    /\ \E conns \in Orders({col.connections[k] : k \in DOMAIN col.connections}) :
          col' = [col EXCEPT
                    !.pc = "pods",
                    !.pods = Tail(col.pods),
                    !.stored = Pod(Head(col.pods)),
                    !.hadPids = IF col.pids = {} THEN col.hadPids
                                ELSE col.hadPids \cup {Pod(Head(col.pods))},
                    !.out = MapPut(col.out, Pod(Head(col.pods)), conns)]
    /\ UNCHANGED <<dec, inet, gc, moby>>

\* line 189
CollectReturn ==
    /\ col.pc = "pods" /\ col.pods = <<>>
    /\ col' = [col EXCEPT !.pc = "done",
                          !.ret = [out |-> col.out, isNil |-> FALSE, err |-> Nil]]
    /\ UNCHANGED <<dec, inet, gc, moby>>

InitCollect ==
    /\ col = ColVars0
    /\ dec = Idle /\ inet = Idle /\ gc = Idle /\ moby = Idle

NextCollect ==
    \/ CollectListPodsFailed
    \/ CollectListPods
    \/ CollectNextPod
    \/ CollectGetPidsFailed
    \/ CollectGetPids
    \/ CollectRangePids
    \/ CollectGetConnections
    \/ CollectStorePod
    \/ CollectReturn

Spec == InitCollect /\ [][NextCollect]_vars

(***************************************************************************)
(* Claims about decodeAddress (SpecDecode)                                 *)
(***************************************************************************)
IsHex(c) == c \in {LowerHex[i] : i \in 1..16} \cup {UpperHex[i] : i \in 1..16}

ColonCount(src) == Cardinality({i \in 1..Len(src) : src[i] = ":"})

\* the text before the first ":" (the whole text when there is none)
AddressPart(src) ==
    LET colons == {i \in 1..Len(src) : src[i] = ":"}
        n == IF colons = {} THEN Len(src)
             ELSE (CHOOSE i \in colons : \A j \in colons : i <= j) - 1
    IN  SubSeq(src, 1, n)

PortPart(src) == SubSeq(src, Len(AddressPart(src)) + 2, Len(src))

AllHex(s) == \A i \in 1..Len(s) : IsHex(s[i])

\* 8 hex digits, ":", 1 to 4 hex digits
ValidIPv4Field(src) ==
    /\ ColonCount(src) = 1
    /\ Len(AddressPart(src)) = 8 /\ AllHex(AddressPart(src))
    /\ Len(PortPart(src)) \in 1..4 /\ AllHex(PortPart(src))

DigitValue(c) == CHOOSE v \in 0..15 : LowerHex[v + 1] = c \/ UpperHex[v + 1] = c

RECURSIVE NumberIn(_, _)
NumberIn(s, base) ==
    IF s = <<>> THEN 0
    ELSE base * NumberIn(SubSeq(s, 1, Len(s) - 1), base) + DigitValue(s[Len(s)])

\* a decimal numeral as Go prints it: digits only, no leading zero
IsDecimal(s) ==
    /\ s # <<>>
    /\ \A i \in 1..Len(s) : s[i] \in {DecDigits[k] : k \in 1..10}
    /\ (Len(s) > 1 => s[1] # "0")

\* the k-th address byte of the field as written (k = 1 is the first pair)
FieldByte(src, k) == NumberIn(SubSeq(src, 2 * k - 1, 2 * k), 16)

Loopback5432 == <<"1", "2", "7", ".", "0", ".", "0", ".", "1", ":", "5", "4", "3", "2">>

Loopback8080 == <<"1", "2", "7", ".", "0", ".", "0", ".", "1", ":", "8", "0", "8", "0">>

AnyZero == <<"0", ".", "0", ".", "0", ".", "0", ":", "0">>

\* C7: for a valid IPv4 field (8 hex digits, ":", hex port) decodeAddress with
\* family inet returns no error and "a.b.c.d:p": the four address bytes in
\* reversed order, in decimal, and the port read in base 16 and printed in
\* decimal; 0100007F:1538 gives 127.0.0.1:5432, 0100007F:1F90 gives
\* 127.0.0.1:8080 and 00000000:0000 gives 0.0.0.0:0.
C7_DecodeValidIPv4 ==
    (dec.pc = "done" /\ dec.family = "inet" /\ ValidIPv4Field(dec.src)) =>
        LET parts == Split(dec.ret.s, ":")
            quad == Split(parts[1], ".")
        IN  /\ dec.ret.err = Nil
            /\ Len(parts) = 2
            /\ Len(quad) = 4
            /\ \A i \in 1..4 : /\ IsDecimal(quad[i])
                                /\ NumberIn(quad[i], 10) = FieldByte(dec.src, 5 - i)
            /\ IsDecimal(parts[2])
            /\ NumberIn(parts[2], 10) = NumberIn(PortPart(dec.src), 16)
            /\ (dec.src = Raw5432 => dec.ret.s = Loopback5432)
            /\ (dec.src = Raw8080 => dec.ret.s = Loopback8080)
            /\ (dec.src = RawZero => dec.ret.s = AnyZero)

C7_Witness ==
    /\ dec.pc = "done" /\ dec.family = "inet"
    /\ dec.src = Raw5432 /\ dec.ret.s = Loopback5432 /\ dec.ret.err = Nil

Unknown0001 == <<"?", "0", "0", "0", "1", ":", "8", "0">>

\* the rows that have 10 fields and two addresses decodeAddress accepts
RowYields(row) == row.shape \in {"listen", "estab", "tabs", "twobytes"}

ExpectedLocal(row) ==
    CASE row.shape = "listen" -> Loopback8080
      [] row.shape = "twobytes" -> Unknown0001
      [] OTHER -> Loopback5432

ExpectedRemote(row) == IF row.shape = "listen" THEN AnyZero ELSE Loopback8080

StateNames ==
    << "ESTABLISHED", "SYN_SENT", "SYN_RECV", "FIN_WAIT1", "FIN_WAIT2", "TIME_WAIT",
       "CLOSE", "CLOSE_WAIT", "LAST_ACK", "LISTEN", "CLOSING" >>

\* the code of the k-th state: 01 .. 09, 0A, 0B
StateCode(k) == <<"0", UpperHex[k + 1]>>

ExpectedStatus(sockType, code) ==
    IF sockType = "tcp" /\ \E k \in 1..11 : code = StateCode(k)
    THEN StateNames[CHOOSE k \in 1..11 : code = StateCode(k)]
    ELSE "NONE"

\* C5: processINET never fails a readable table because of a bad row: the
\* first line is skipped whatever it holds, a later row with fewer than 10
\* fields or with a local or remote address that does not decode is left
\* out without an error, and every other row gives exactly one Connection,
\* in table order.
C5_BadRowsDropped ==
    (inet.pc = "done" /\ inet.filename \in DOMAIN inet.fs) =>
        LET good == SelectSeq(inet.rows, RowYields)
        IN  /\ inet.ret.err = Nil
            /\ Len(inet.ret.out) = Len(good)
            /\ \A i \in 1..Len(good) :
                  /\ inet.ret.out[i].Family = "inet"
                  /\ inet.ret.out[i].Type = inet.kind.sockType
                  /\ inet.ret.out[i].LocalAddress = ExpectedLocal(good[i])
                  /\ inet.ret.out[i].RemoteAddess = ExpectedRemote(good[i])

C5_Witness ==
    /\ inet.pc = "done"
    /\ inet.first = RowLine(ListenRow)
    /\ Len(inet.rows) = 2
    /\ inet.rows[1].shape = "short"
    /\ inet.rows[2].shape = "estab"
    /\ Len(inet.ret.out) = 1
    /\ inet.ret.out[1].LocalAddress = Loopback5432
    /\ inet.ret.err = Nil

\* C6: every Connection of processINET has a non-empty Status: for tcp the
\* name of the state code in field 3 when it is one of the 11 codes 01..0B
\* (each with its own name), NONE for any other code; for a kind that is
\* not tcp, NONE whatever field 3 holds.
C6_StatusNeverEmpty ==
    /\ \A k, j \in 1..11 :
          /\ _TCPStatuses(StateCode(k)) = StateNames[k]
          /\ (k # j => _TCPStatuses(StateCode(k)) # _TCPStatuses(StateCode(j)))
    /\ (inet.pc = "done" =>
          LET good == SelectSeq(inet.rows, RowYields)
          IN  \A i \in 1..Len(inet.ret.out) :
                /\ inet.ret.out[i].Status # ""
                /\ i <= Len(good)
                /\ inet.ret.out[i].Status =
                       ExpectedStatus(inet.kind.sockType, good[i].code))

C6_Witness ==
    /\ inet.pc = "done"
    /\ inet.kind.sockType = "tcp"
    /\ inet.rows = <<ListenRow, [shape |-> "listen", code |-> <<"F", "F">>]>>
    /\ Len(inet.ret.out) = 2
    /\ inet.ret.out[1].Status = "LISTEN"
    /\ inet.ret.out[2].Status = "NONE"

(***************************************************************************)
(* Claims about GetConnections (SpecGetConnections)                        *)
(***************************************************************************)
\* the Connections the rows of a table stand for
ExpectedConnections(table, sockType) ==
    LET good == SelectSeq(table.rows, RowYields)
    IN  IF ~table.readable THEN <<>>
        ELSE [i \in 1..Len(good) |->
                [Family |-> "inet", Type |-> sockType,
                 LocalAddress |-> ExpectedLocal(good[i]),
                 RemoteAddess |-> ExpectedRemote(good[i]),
                 Status |-> ExpectedStatus(sockType, good[i].code)]]

Unreadable == {i \in 1..2 : ~gc.tables[i].readable}

\* C2: GetConnections tries every kind, tcp then udp, also after a kind has
\* failed; it returns the connections of every kind that parsed, in that
\* order; its error is non-nil exactly when a table could not be read, and
\* nil (not an empty error) when both were read.
C2_AllKindsTried ==
    gc.pc = "done" =>
        /\ gc.reads = << GcPath(gc.root, gc.pid, <<"t", "c", "p">>),
                         GcPath(gc.root, gc.pid, <<"u", "d", "p">>) >>
        /\ gc.ret.out = ExpectedConnections(gc.tables[1], "tcp")
                           \o ExpectedConnections(gc.tables[2], "udp")
        /\ (gc.ret.err.present <=> Unreadable # {})
        /\ (Unreadable = {} => gc.ret.err = Nil)
        /\ (gc.ret.err.present => Len(gc.ret.err.errors) = Cardinality(Unreadable))

C2_Witness ==
    /\ gc.pc = "done"
    /\ Unreadable = {1}
    /\ Len(gc.reads) = 2
    /\ Len(gc.ret.out) = 2
    /\ gc.ret.out[1].Type = "udp"
    /\ gc.ret.err.present

(***************************************************************************)
(* Claims about moby's GetPids (SpecMoby)                                  *)
(***************************************************************************)
InspectedState ==
    LET name == SubSeq(moby.id, 10, Len(moby.id))
    IN  /\ Len(moby.id) >= 9
        /\ SubSeq(moby.id, 1, 9) = <<"d", "o", "c", "k", "e", "r", ":", "/", "/">>
        /\ name \in DOMAIN moby.daemon
        /\ ~moby.daemon[name].fails
        /\ moby.daemon[name].hasState

InspectedPid == moby.daemon[SubSeq(moby.id, 10, Len(moby.id))].Pid

\* C9: for a docker:// container whose inspection succeeds and reports a
\* state, GetPids returns no process IDs and no error when the PID is
\* negative, and exactly the list of the one PID otherwise.
C9_AsStated ==
    (moby.pc = "done" /\ InspectedState) =>
        /\ moby.ret.err = Nil
        /\ (InspectedPid < 0 => moby.ret.pids = <<>>)
        /\ (InspectedPid >= 0 => moby.ret.pids = <<InspectedPid>>)

(***************************************************************************)
(* Claims about Collect (Spec)                                             *)
(***************************************************************************)
Key(c) == <<c.Family, c.Type, c.LocalAddress, c.RemoteAddess>>

\* every connection the getter returned for the pod, in the order seen
RECURSIVE ObservedIn(_)
ObservedIn(calls) ==
    IF calls = <<>> THEN <<>> ELSE Head(calls).c \o ObservedIn(Tail(calls))

Observed == ObservedIn(col.calls)

OneRecordPerKey(conns) ==
    \A i, j \in 1..Len(conns) : Key(conns[i]) = Key(conns[j]) => i = j

\* C1: a workload's connection list holds at most one record per (Family,
\* Type, LocalAddress, RemoteAddess), whatever the pids and their order, and
\* of the observed records that share a key the one observed last survives.
C1_LastObservedWins ==
    /\ \A pod \in DOMAIN col.out : OneRecordPerKey(col.out[pod])
    /\ \A pod \in DOMAIN col.ret.out : OneRecordPerKey(col.ret.out[pod])
    /\ (col.stored # NoPod =>
          /\ col.stored \in DOMAIN col.out
          /\ LET conns == col.out[col.stored]
                 obs == Observed
                 IsLast(n) == \A m \in 1..Len(obs) : Key(obs[m]) = Key(obs[n]) => m <= n
             IN  /\ \A n \in 1..Len(obs) :
                       IsLast(n) => \E i \in 1..Len(conns) : conns[i] = obs[n]
                 /\ \A i \in 1..Len(conns) :
                       \E n \in 1..Len(obs) : IsLast(n) /\ obs[n] = conns[i])

C1_Witness ==
    /\ col.stored # NoPod
    /\ Len(col.calls) = 2
    /\ col.calls[1].c = <<ConnEstablished>>
    /\ col.calls[2].c = <<ConnCloseWait, ConnUDP>>
    /\ col.stored \in DOMAIN col.out
    /\ Len(col.out[col.stored]) = 2
    /\ \E i \in 1..2 : col.out[col.stored][i] = ConnCloseWait

\* C3: a failure of the connection getter for one pid does not stop the
\* loop: every pid of the workload is queried, and the workload's set is the
\* union of what was returned for all of them, one record per key.
C3_EveryPidQueried ==
    /\ (col.pc = "conns" =>
          col.todo \cup {col.calls[i].pid : i \in 1..Len(col.calls)} = col.pids)
    /\ (col.stored # NoPod =>
          /\ {col.calls[i].pid : i \in 1..Len(col.calls)} = col.pids
          /\ Len(col.calls) = Cardinality(col.pids)
          /\ col.stored \in DOMAIN col.out
          /\ LET conns == col.out[col.stored]
                 obs == Observed
             IN  /\ {Key(conns[i]) : i \in 1..Len(conns)}
                       = {Key(obs[n]) : n \in 1..Len(obs)}
                 /\ {conns[i] : i \in 1..Len(conns)} \subseteq {obs[n] : n \in 1..Len(obs)}
                 /\ Len(conns) = Cardinality({Key(obs[n]) : n \in 1..Len(obs)}))

C3_Witness ==
    /\ col.stored # NoPod
    /\ Len(col.calls) = 2
    /\ col.calls[1].failed /\ col.calls[1].c = <<>>
    /\ ~col.calls[2].failed /\ col.calls[2].c = <<ConnEstablished>>
    /\ col.stored \in DOMAIN col.out
    /\ col.out[col.stored] = <<ConnEstablished>>

\* C4: when the lister succeeds the keys of the result are exactly the
\* (name, namespace) of the listed pods in phase Running or Pending; such a
\* pod is there also with no running container, with PID resolution failing
\* for all its containers or with no pid at all, and then with an empty
\* connection list; Collect returns no error.
C4_EligiblePodsOnly ==
    (col.pc = "done" /\ ~col.ret.isNil) =>
        /\ DOMAIN col.ret.out =
              {Pod(col.listed[i]) : i \in {n \in 1..Len(col.listed) :
                                             col.listed[n].Phase \in {"Running", "Pending"}}}
        /\ col.ret.err = Nil
        /\ \A pod \in DOMAIN col.ret.out :
              pod \notin col.hadPids => col.ret.out[pod] = <<>>

C4_Witness ==
    /\ col.pc = "done" /\ ~col.ret.isNil
    /\ Len(col.listed) = 2
    /\ col.listed[1].Phase = "Succeeded"
    /\ col.listed[2].Phase = "Pending"
    /\ DOMAIN col.ret.out = {Pod(col.listed[2])}
    /\ col.ret.out[Pod(col.listed[2])] = <<>>
    /\ col.hadPids = {}
    /\ col.warnedIDs = {"docker://a", "docker://b"}

LastCall == col.calls[Len(col.calls)]

LastOfKey(c, n) == \A m \in 1..Len(c) : Key(c[m]) = Key(c[n]) => m <= n

\* C10: when the getter returns connections together with an error, Collect
\* logs the error and still inserts every returned connection; the partial
\* result is not dropped.
C10_PartialResultsKept ==
    /\ (col.pc = "conns" /\ col.calls # <<>> /\ LastCall.failed /\ LastCall.c # <<>>) =>
          /\ LastCall.pid \in col.warned
          /\ \A n \in 1..Len(LastCall.c) :
                /\ \E k \in DOMAIN col.connections :
                      Key(col.connections[k]) = Key(LastCall.c[n])
                /\ LastOfKey(LastCall.c, n) =>
                      \E k \in DOMAIN col.connections : col.connections[k] = LastCall.c[n]
    /\ (col.stored # NoPod /\ col.stored \in DOMAIN col.out) =>
          \A i \in 1..Len(col.calls) :
             col.calls[i].failed =>
                \A n \in 1..Len(col.calls[i].c) :
                   \E j \in 1..Len(col.out[col.stored]) :
                      Key(col.out[col.stored][j]) = Key(col.calls[i].c[n])

C10_Witness ==
    /\ col.pc = "conns" /\ col.calls # <<>>
    /\ LastCall.failed
    /\ LastCall.c = <<ConnCloseWait, ConnUDP>>
    /\ LastCall.pid \in col.warned
    /\ {col.connections[k] : k \in DOMAIN col.connections} = {ConnCloseWait, ConnUDP}

=============================================================================
